---- MODULE Spec2Model ----
(***************************************************************************)
(* The /interact endpoint of src/main.py: the process-wide conversation    *)
(* history, the question router (Vectara search or OpenAI completion) and  *)
(* the PDF upload pipeline.                                                *)
(*                                                                         *)
(* A text (Python str) is a sequence of symbols.  Texts supplied by the    *)
(* caller or by a backend are spelled character by character, so that      *)
(* lower(), strip(), endswith() and the substring test are computed as the *)
(* code computes them.  The fixed message literals of the source are       *)
(* single symbols: no operation of the program looks inside them.          *)
(***************************************************************************)
EXTENDS Integers, Sequences, FiniteSets, TLC

\* ------------------------------------------------------------------ bounds

\* At most this many requests (or direct appends) of a behaviour differ from
\* the routine exchange: the question RoutineQuestion answered by the
\* completion RoutineCompletion.
MaxVaried == 1

\* At most this many turns are ever stored in a behaviour.
MaxStored == 62

\* At most this many requests are accepted in a behaviour with requests in
\* flight together.
MaxAccepted == 3

\* --------------------------------------------------------------- constants

\* src/main.py:42
MAX_MESSAGES == 60

\* src/main.py:174
MAX_FILE_SIZE == 10 * 1024 * 1024

\* src/main.py:72
vectara_keywords ==
    << <<"s","e","a","r","c","h">>,
       <<"d","o","c","u","m","e","n","t">>,
       <<"f","i","l","e">>,
       <<"r","e","t","r","i","e","v","e">>,
       <<"f","i","n","d">> >>

\* ------------------------------------------------------------ Python values

\* Optional[str]: None, or a text.
None == [is_none |-> TRUE]

Some(t) == [is_none |-> FALSE, value |-> t]

\* Truth value of an Optional[str] in a condition: None and "" are false.
truthy(o) == (~o.is_none) /\ o.value # <<>>

UpperCase ==
    <<"A","B","C","D","E","F","G","H","I","J","K","L","M",
      "N","O","P","Q","R","S","T","U","V","W","X","Y","Z">>

LowerCase ==
    <<"a","b","c","d","e","f","g","h","i","j","k","l","m",
      "n","o","p","q","r","s","t","u","v","w","x","y","z">>

Whitespace == {" ", "\t", "\n", "\r"}

\* The lower-case letter of each upper-case letter.
LowerOf ==
    [c \in {UpperCase[k] : k \in 1..26} |->
        LowerCase[CHOOSE k \in 1..26 : UpperCase[k] = c]]

\* str.lower()
lower(s) ==
    [i \in 1..Len(s) |-> IF s[i] \in DOMAIN LowerOf THEN LowerOf[s[i]] ELSE s[i]]

\* str.strip()
strip(s) ==
    LET keep == {i \in 1..Len(s) : s[i] \notin Whitespace}
    IN  IF keep = {} THEN <<>>
        ELSE SubSeq(s, CHOOSE i \in keep : \A j \in keep : i <= j,
                       CHOOSE i \in keep : \A j \in keep : i >= j)

\* sub in s
contains(sub, s) ==
    \E i \in 0..(Len(s) - Len(sub)) : SubSeq(s, i + 1, i + Len(sub)) = sub

\* s.endswith(suffix)
endswith(s, suffix) ==
    /\ Len(suffix) <= Len(s)
    /\ SubSeq(s, Len(s) - Len(suffix) + 1, Len(s)) = suffix

\* str(n) for the status codes of the model
str(n) ==
    CASE n = 200 -> <<"2","0","0">>
      [] n = 201 -> <<"2","0","1">>
      [] n = 500 -> <<"5","0","0">>

\* ------------------------------------------------- message literals, results

ExceptionDuringVectaraQuery == <<"Exception during Vectara query: ">>

NoResultsFound == <<"No results found in Vectara response.">>

VectaraQueryFailed == <<"Vectara query failed with status code ">>

ColonSpace == <<": ">>

IndexErrorText == <<"list index out of range">>

ErrorDuringOpenAI == <<"Error during OpenAI API call: ">>

Apology == <<"Sorry, I couldn't process your request at the moment.">>

IngestSucceeded == <<"Successfully ingested PDF content into Vectara.">>

IngestFailed == <<"Failed to ingest PDF into Vectara: ">>

ExceptionDuringIngestion == <<"Exception during Vectara ingestion: ">>

OnlyPdfSupported == <<"Only PDF files are supported.">>

InvalidFileType == <<"Invalid file type. Only PDF files are allowed.">>

FileTooLarge == <<"File size exceeds the 10MB limit.">>

FailedToSave == <<"Failed to save uploaded PDF: ">>

FailedToExtract == <<"Failed to extract text from PDF: ">>

InvalidRequest == <<"Invalid request. Provide either a PDF file or a question.">>

DotPdf == <<".","p","d","f">>

ApplicationPdf == <<"application/pdf">>

\* What the endpoint hands back: the HTTP status and the one key of the JSON
\* body with its value.  A handler that ends without a return statement
\* yields the body null.
Answer(o) == [status_code |-> 200, key |-> "answer", value |-> o]

Message(t) == [status_code |-> 200, key |-> "message", value |-> Some(t)]

HTTPException(code, t) == [status_code |-> code, key |-> "detail", value |-> Some(t)]

NullBody == [status_code |-> 200, key |-> "null", value |-> None]

NoResponse == [status_code |-> 0, key |-> "none", value |-> None]

\* ------------------------------------------------------ the program's functions

Turn(role, content) == [role |-> role, content |-> content]

\* update_conversation_history without lines 60-63: nothing is ever removed.
update_without_eviction(h, role, content) ==
    IF role \notin {"user", "assistant"}
    THEN h
    ELSE Append(h, Turn(role, content))

\* update_conversation_history without lines 55-56: any role is stored.
update_storing_any_role(h, role, content) ==
    LET appended_to == Append(h, Turn(role, content))
    IN  IF Len(appended_to) > MAX_MESSAGES
        THEN Tail(Tail(appended_to))
        ELSE appended_to

\* update_conversation_history with line 57 as insert(0, ...): the new turn is
\* put at the front.
update_prepending(h, role, content) ==
    IF role \notin {"user", "assistant"}
    THEN h
    ELSE LET prepended == << Turn(role, content) >> \o h
         IN  IF Len(prepended) > MAX_MESSAGES
             THEN Tail(Tail(prepended))
             ELSE prepended

\* update_conversation_history without line 63: one entry is removed.
update_evicting_one(h, role, content) ==
    IF role \notin {"user", "assistant"}
    THEN h
    ELSE LET appended == Append(h, Turn(role, content))
         IN  IF Len(appended) > MAX_MESSAGES
             THEN Tail(appended)
             ELSE appended

\* update_conversation_history, as a function of the history it is applied to.
update_conversation_history(h, role, content) ==
    IF role \notin {"user", "assistant"}
    THEN h
    ELSE LET appended == Append(h, Turn(role, content))
         IN  IF Len(appended) > MAX_MESSAGES
             THEN Tail(Tail(appended))
             ELSE appended

is_vectara_question(q) ==
    LET question_lower == lower(q)
    IN  \E k \in 1..Len(vectara_keywords) : contains(vectara_keywords[k], question_lower)

\* query_vectara, as a function of what requests.post does: it raises e, or
\* answers with a status code, a body text and (for 200) the decoded JSON.
query_vectara(b) ==
    IF b.raised
    THEN Some(ExceptionDuringVectaraQuery \o b.e)
    ELSE IF b.status_code = 200
         THEN IF b.json.has_responseSet /\ b.json.responseSet # <<>>
              THEN IF b.json.responseSet[1].response = <<>>
                   THEN Some(ExceptionDuringVectaraQuery \o IndexErrorText)
                   ELSE b.json.responseSet[1].response[1].text
              ELSE Some(NoResultsFound)
         ELSE Some(VectaraQueryFailed \o str(b.status_code) \o ColonSpace \o b.text)

\* The entries a call of update_conversation_history(role, content) on h that
\* resulted in h2 has removed from the front.
removed_by(h, role, content, h2) ==
    IF h2 = h
    THEN <<>>
    ELSE SubSeq(Append(h, Turn(role, content)), 1, Len(h) + 1 - Len(h2))

\* interact without line 211: the search result is stored and not returned.
interact_vectara_not_returned(h, vectara_response) ==
    IF truthy(vectara_response)
    THEN LET h2 == update_conversation_history(h, "assistant", vectara_response.value)
         IN  [history  |-> h2,
              removed  |-> removed_by(h, "assistant", vectara_response.value, h2),
              response |-> NullBody]
    ELSE [history |-> h, removed |-> <<>>, response |-> NullBody]

\* interact with line 210 storing the search result under the role user.
interact_vectara_as_user(h, vectara_response) ==
    IF truthy(vectara_response)
    THEN LET h2 == update_conversation_history(h, "user", vectara_response.value)
         IN  [history  |-> h2,
              removed  |-> removed_by(h, "user", vectara_response.value, h2),
              response |-> Answer(vectara_response)]
    ELSE [history |-> h, removed |-> <<>>, response |-> NullBody]

\* interact, lines 209-211: the search result is stored and returned when it is
\* true; otherwise the handler runs off its end.
interact_vectara(h, vectara_response) ==
    IF truthy(vectara_response)
    THEN LET h2 == update_conversation_history(h, "assistant", vectara_response.value)
         IN  [history  |-> h2,
              removed  |-> removed_by(h, "assistant", vectara_response.value, h2),
              response |-> Answer(vectara_response)]
    ELSE [history |-> h, removed |-> <<>>, response |-> NullBody]

\* optimize_with_gpt without line 251: the answer is returned, not stored.
optimize_without_assistant(h, q, c) ==
    LET h1 == update_conversation_history(h, "user", q)
        r1 == removed_by(h, "user", q, h1)
    IN  IF c.raised
        THEN [history |-> h1, removed |-> r1, ret |-> ErrorDuringOpenAI \o c.e]
        ELSE IF c.has_choices /\ c.choices # <<>>
             THEN [history |-> h1, removed |-> r1, ret |-> strip(c.choices[1])]
             ELSE [history |-> h1, removed |-> r1, ret |-> Apology]

\* The message optimize_with_gpt adds to what it sends, lines 232-235.
system_message == Turn("system", <<"Proceeding with the user's question.">>)

\* optimize_with_gpt, lines 227-236: the question is stored and the messages
\* to send are a copy of the history with the system message at its end.
optimize_with_gpt_messages(h, q) ==
    LET h1 == update_conversation_history(h, "user", q)
    IN  [history  |-> h1,
         removed  |-> removed_by(h, "user", q, h1),
         messages |-> Append(h1, system_message)]

\* optimize_with_gpt, lines 238-254, with lines 245 and 254 storing the text
\* they return.
optimize_with_gpt_result_stored(h1, c) ==
    LET ret == IF c.raised
               THEN ErrorDuringOpenAI \o c.e
               ELSE IF c.has_choices /\ c.choices # <<>>
                    THEN strip(c.choices[1])
                    ELSE Apology
        h2 == update_conversation_history(h1, "assistant", ret)
    IN  [history |-> h2, removed |-> removed_by(h1, "assistant", ret, h2), ret |-> ret]

\* optimize_with_gpt, lines 238-254: what is done with the outcome c of
\* openai.ChatCompletion.create, which raises e or returns a response.
optimize_with_gpt_result(h1, c) ==
    IF c.raised
    THEN [history |-> h1, removed |-> <<>>, ret |-> ErrorDuringOpenAI \o c.e]
    ELSE IF c.has_choices /\ c.choices # <<>>
         THEN LET optimized_response == strip(c.choices[1])
                  h2 == update_conversation_history(h1, "assistant", optimized_response)
              IN  [history |-> h2,
                   removed |-> removed_by(h1, "assistant", optimized_response, h2),
                   ret     |-> optimized_response]
         ELSE [history |-> h1, removed |-> <<>>, ret |-> Apology]

\* optimize_with_gpt, as a function of the history, the question and what
\* openai.ChatCompletion.create does.
optimize_with_gpt(h, q, c) ==
    LET sent == optimize_with_gpt_messages(h, q)
        r == optimize_with_gpt_result(sent.history, c)
    IN  [history |-> r.history,
         removed |-> sent.removed \o r.removed,
         ret     |-> r.ret]

\* ingest_pdf_to_vectara, as a function of what requests.post does.
ingest_pdf_to_vectara(b) ==
    IF b.raised
    THEN ExceptionDuringIngestion \o b.e
    ELSE IF b.status_code \in {200, 201}
         THEN IngestSucceeded
         ELSE IngestFailed \o str(b.status_code) \o <<" ">> \o b.text

\* ------------------------------------------------------------------- inputs

Joke == <<"j","o","k","e">>

JokeShouted == <<" ","J","O","K","E"," ">>

FindX == <<"F","i","n","d"," ","x">>

Blank == <<" ">>

\* The question form field: absent, or a text.
Questions == {None, Some(<<>>), Some(Blank), Some(Joke), Some(JokeShouted), Some(FindX)}

RoutineQuestion == Some(Joke)

NoFile == [present |-> FALSE, filename |-> <<>>, content_type |-> <<>>, size |-> 0]

Upload(filename, content_type, size) ==
    [present |-> TRUE, filename |-> filename, content_type |-> content_type, size |-> size]

APdf == <<"a",".","p","d","f">>

ATxt == <<"a",".","t","x","t">>

\* The file form field of an upload: a name, a MIME type and a size.
Uploads ==
    { Upload(APdf, ApplicationPdf, 1),
      Upload(APdf, ApplicationPdf, MAX_FILE_SIZE),
      Upload(APdf, ApplicationPdf, MAX_FILE_SIZE + 1),
      Upload(ATxt, ApplicationPdf, 1),
      Upload(APdf, <<"text/plain">>, 1) }

\* The requests: a question alone, or an upload without or with a question.
Requests ==
    ({NoFile} \X Questions) \cup (Uploads \X {None})
        \cup {<<Upload(APdf, ApplicationPdf, 1), RoutineQuestion>>}

\* What a call of requests.post can do; NoPost when none was made.
NoPost ==
    [called |-> FALSE, raised |-> FALSE, e |-> <<>>, status_code |-> 0, text |-> <<>>,
     json |-> [has_responseSet |-> FALSE, responseSet |-> <<>>]]

Raises(e) ==
    [called |-> TRUE, raised |-> TRUE, e |-> e, status_code |-> 0, text |-> <<>>,
     json |-> [has_responseSet |-> FALSE, responseSet |-> <<>>]]

Responds(code, text, json) ==
    [called |-> TRUE, raised |-> FALSE, e |-> <<>>, status_code |-> code, text |-> text,
     json |-> json]

NoJson == [has_responseSet |-> FALSE, responseSet |-> <<>>]

ResponseSet(rs) == [has_responseSet |-> TRUE, responseSet |-> rs]

TopResult(text) == ResponseSet(<< [response |-> << [text |-> text] >>] >>)

Passage == <<"X"," ","i","s"," ","Y">>

Down == <<"d","o","w","n">>

Oops == <<"o","o","p","s">>

SearchOutcomes ==
    { Raises(Down),
      Responds(500, Oops, NoJson),
      Responds(200, <<>>, NoJson),
      Responds(200, <<>>, ResponseSet(<<>>)),
      Responds(200, <<>>, ResponseSet(<< [response |-> <<>>] >>)),
      Responds(200, <<>>, TopResult(None)),
      Responds(200, <<>>, TopResult(Some(<<>>))),
      Responds(200, <<>>, TopResult(Some(Passage))) }

IngestOutcomes ==
    { Raises(Down),
      Responds(500, Oops, NoJson),
      Responds(201, <<>>, NoJson) }

\* What a call of openai.ChatCompletion.create can do; NoCompletion when none
\* was made.
NoCompletion ==
    [called |-> FALSE, raised |-> FALSE, e |-> <<>>, has_choices |-> FALSE, choices |-> <<>>]

CompletionRaises(e) ==
    [called |-> TRUE, raised |-> TRUE, e |-> e, has_choices |-> FALSE, choices |-> <<>>]

CompletionReturns(has_choices, choices) ==
    [called |-> TRUE, raised |-> FALSE, e |-> <<>>, has_choices |-> has_choices,
     choices |-> choices]

RoutineCompletion == CompletionReturns(TRUE, << <<" ","h","a","\n">> >>)

CompletionOutcomes ==
    { RoutineCompletion,
      CompletionRaises(Down),
      CompletionReturns(FALSE, <<>>),
      CompletionReturns(TRUE, <<>>) }

NoCalls == [query_vectara |-> 0, openai |-> 0, write |-> 0, extract |-> 0, ingest |-> 0]

\* A call of update_conversation_history(role, content) from outside the
\* endpoint; NoAppend when the last operation was none.
NoAppend == [called |-> FALSE, role |-> "", content |-> <<>>]

Appended(role, content) == [called |-> TRUE, role |-> role, content |-> content]

\* The connections that have a request in flight at the same time.
Tasks == {1, 2}

\* A connection without a request.
NoTask == [pc |-> "idle", id |-> 0, question |-> None, response |-> NoResponse]

\* -------------------------------------------------------------------- state

VARIABLES
    conversation_history,  \* the module-level list, main.py:35
    evicted,               \* the turns removed from its front, in order
    pc,                    \* where the request in progress stands
    file,                  \* the request's file field
    question,              \* the request's question field
    search,                \* what the request's Vectara query did
    vectara_response,      \* interact's local, main.py:208
    completion,            \* what the request's OpenAI call did
    calls,                 \* the request's calls of the outside world
    response,              \* what the request hands back
    len0,                  \* Len(conversation_history) when the request arrived
    n0,                    \* Len(log) when the request arrived
    varied,                \* requests so far that were not routine
    appended,              \* the last call of update_conversation_history from outside
    tasks,                 \* the requests in flight together, one per connection
    loop,                  \* the event loop: the handler it runs, the requests it accepted
    owner                  \* for every turn of log, the request that stored it

vars ==
    << conversation_history, evicted, pc, file, question, search, vectara_response,
       completion, calls, response, len0, n0, varied, appended, tasks, loop, owner >>

\* The state of the requests in flight together.
concurrent == << tasks, loop, owner >>

request == << file, question, search, vectara_response, completion, calls, response >>

\* Every turn ever stored, in order.
log == evicted \o conversation_history

\* The history as it was when the request in progress arrived.
history0 == SubSeq(log, n0 - len0 + 1, n0)

\* The turns stored since the request in progress arrived.
stored == SubSeq(log, n0 + 1, Len(log))

Init ==
    /\ conversation_history = <<>>
    /\ evicted = <<>>
    /\ pc = "idle"
    /\ file = NoFile
    /\ question = None
    /\ search = NoPost
    /\ vectara_response = None
    /\ completion = NoCompletion
    /\ calls = NoCalls
    /\ response = NoResponse
    /\ len0 = 0
    /\ n0 = 0
    /\ varied = 0
    /\ appended = NoAppend
    /\ tasks = [t \in Tasks |-> NoTask]
    /\ loop = [running |-> 0, accepted |-> 0]
    /\ owner = <<>>

\* ------------------------------------------------------------------ actions

\* interact with the test of the question before the test of the file.
interact_branch_question_first(f, q) ==
    IF truthy(q)
    THEN IF is_vectara_question(q.value) THEN "query_vectara" ELSE "optimize_with_gpt"
    ELSE IF f.present
         THEN "upload"
         ELSE "invalid"

\* interact, lines 164, 205, 207 and 217: which branch handles the request.
interact_branch(f, q) ==
    IF f.present
    THEN "upload"
    ELSE IF truthy(q)
         THEN IF is_vectara_question(q.value) THEN "query_vectara" ELSE "optimize_with_gpt"
         ELSE "invalid"

\* A request arrives at POST /interact and interact picks its branch; without
\* a file and a question it raises 400.  The locals of the request before it
\* are gone.
Request(f, q) ==
    /\ pc \in {"idle", "done"}
    /\ Len(log) + 2 <= MaxStored
    /\ varied + (IF f = NoFile /\ q = RoutineQuestion THEN 0 ELSE 1) <= MaxVaried
    /\ varied' = varied + (IF f = NoFile /\ q = RoutineQuestion THEN 0 ELSE 1)
    /\ file' = f
    /\ question' = q
    /\ len0' = Len(conversation_history)
    /\ n0' = Len(log)
    /\ search' = NoPost
    /\ vectara_response' = None
    /\ completion' = NoCompletion
    /\ calls' = NoCalls
    /\ LET branch == interact_branch(f, q)
       IN  IF branch = "invalid"
           THEN /\ response' = HTTPException(400, InvalidRequest)
                /\ pc' = "done"
           ELSE /\ response' = NoResponse
                /\ pc' = branch
    /\ appended' = NoAppend
    /\ UNCHANGED concurrent
    /\ UNCHANGED << conversation_history, evicted >>

\* interact, lines 208-211: the Vectara query and what is done with its result.
QueryVectara(b) ==
    /\ pc = "query_vectara"
    /\ search' = b
    /\ calls' = [calls EXCEPT !.query_vectara = @ + 1]
    /\ vectara_response' = query_vectara(b)
    /\ LET r == interact_vectara(conversation_history, query_vectara(b))
       IN  /\ conversation_history' = r.history
           /\ evicted' = evicted \o r.removed
           /\ response' = r.response
    /\ pc' = "done"
    /\ UNCHANGED << appended, tasks, loop, owner >>
    /\ UNCHANGED << file, question, completion, len0, n0, varied >>

\* interact, lines 214-215: optimize_with_gpt stores the question, makes the
\* completion call and handles its result, and its return value is the answer.
\* The function has no suspension point: no other request runs in between.
OptimizeWithGpt(c) ==
    /\ pc = "optimize_with_gpt"
    /\ varied + (IF c = RoutineCompletion THEN 0 ELSE 1) <= MaxVaried
    /\ varied' = varied + (IF c = RoutineCompletion THEN 0 ELSE 1)
    /\ completion' = c
    /\ calls' = [calls EXCEPT !.openai = @ + 1]
    /\ LET r == optimize_with_gpt(conversation_history, question.value, c)
       IN  /\ conversation_history' = r.history
           /\ evicted' = evicted \o r.removed
           /\ response' = Answer(Some(r.ret))
    /\ pc' = "done"
    /\ UNCHANGED << appended, tasks, loop, owner >>
    /\ UNCHANGED << file, question, search, vectara_response, len0, n0 >>

\* interact without lines 176-177: the size is not checked.
UploadValidateWithoutSize ==
    /\ pc = "upload"
    /\ IF ~endswith(file.filename, DotPdf)
       THEN response' = HTTPException(400, OnlyPdfSupported) /\ pc' = "done"
       ELSE IF file.content_type # ApplicationPdf
            THEN response' = HTTPException(400, InvalidFileType) /\ pc' = "done"
            ELSE response' = response /\ pc' = "upload_save"
    /\ UNCHANGED << appended, tasks, loop, owner >>
    /\ UNCHANGED << conversation_history, evicted, file, question, search, vectara_response,
                    completion, calls, len0, n0, varied >>

\* interact, lines 166-177: the name, the MIME type and the size are checked.
UploadValidate ==
    /\ pc = "upload"
    /\ IF ~endswith(file.filename, DotPdf)
       THEN response' = HTTPException(400, OnlyPdfSupported) /\ pc' = "done"
       ELSE IF file.content_type # ApplicationPdf
            THEN response' = HTTPException(400, InvalidFileType) /\ pc' = "done"
            ELSE IF file.size > MAX_FILE_SIZE
                 THEN response' = HTTPException(400, FileTooLarge) /\ pc' = "done"
                 ELSE response' = response /\ pc' = "upload_save"
    /\ UNCHANGED << appended, tasks, loop, owner >>
    /\ UNCHANGED << conversation_history, evicted, file, question, search, vectara_response,
                    completion, calls, len0, n0, varied >>

\* interact, lines 180-188: the upload is written to the upload directory.
UploadSave(ok) ==
    /\ pc = "upload_save"
    /\ calls' = [calls EXCEPT !.write = @ + 1]
    /\ IF ok
       THEN response' = response /\ pc' = "upload_extract"
       ELSE response' = HTTPException(500, FailedToSave \o Down) /\ pc' = "done"
    /\ UNCHANGED << appended, tasks, loop, owner >>
    /\ UNCHANGED << conversation_history, evicted, file, question, search, vectara_response,
                    completion, len0, n0, varied >>

\* interact, lines 191-199: the text of the PDF is extracted.
UploadExtract(ok) ==
    /\ pc = "upload_extract"
    /\ calls' = [calls EXCEPT !.extract = @ + 1]
    /\ IF ok
       THEN response' = response /\ pc' = "upload_ingest"
       ELSE response' = HTTPException(500, FailedToExtract \o Down) /\ pc' = "done"
    /\ UNCHANGED << appended, tasks, loop, owner >>
    /\ UNCHANGED << conversation_history, evicted, file, question, search, vectara_response,
                    completion, len0, n0, varied >>

\* interact, lines 202-203: the text is ingested and the outcome returned.
UploadIngest(b) ==
    /\ pc = "upload_ingest"
    /\ calls' = [calls EXCEPT !.ingest = @ + 1]
    /\ response' = Message(ingest_pdf_to_vectara(b))
    /\ pc' = "done"
    /\ UNCHANGED << appended, tasks, loop, owner >>
    /\ UNCHANGED << conversation_history, evicted, file, question, search, vectara_response,
                    completion, len0, n0, varied >>

\* update_conversation_history called by another caller than the endpoint,
\* between two requests.
DirectAppend(role, content) ==
    /\ pc \in {"idle", "done"}
    /\ Len(log) < MaxStored
    /\ varied < MaxVaried
    /\ varied' = varied + 1
    /\ LET h2 == update_conversation_history(conversation_history, role, content)
       IN  /\ conversation_history' = h2
           /\ evicted' = evicted \o removed_by(conversation_history, role, content, h2)
    /\ pc' = "idle"
    /\ file' = NoFile
    /\ question' = None
    /\ search' = NoPost
    /\ vectara_response' = None
    /\ completion' = NoCompletion
    /\ calls' = NoCalls
    /\ response' = NoResponse
    /\ len0' = Len(conversation_history)
    /\ n0' = Len(log)
    /\ appended' = Appended(role, content)
    /\ UNCHANGED concurrent

Next ==
    \/ \E r \in Requests : Request(r[1], r[2])
    \/ \E b \in SearchOutcomes : QueryVectara(b)
    \/ \E c \in CompletionOutcomes : OptimizeWithGpt(c)
    \/ UploadValidate
    \/ \E ok \in BOOLEAN : UploadSave(ok)
    \/ \E ok \in BOOLEAN : UploadExtract(ok)
    \/ \E b \in IngestOutcomes : UploadIngest(b)

\* The endpoint alone.
Spec == Init /\ [][Next]_vars

NextAppend ==
    \/ Next
    \/ \E role \in {"user", "assistant", "system"} : DirectAppend(role, Joke)

\* The endpoint, and other callers of update_conversation_history.
SpecAppend == Init /\ [][NextAppend]_vars

\* ------------------------------------------------- requests in flight together

\* The single request's state, at rest while requests are in flight together.
single ==
    << pc, file, question, search, vectara_response, completion, calls, response,
       len0, n0, varied, appended >>

\* The questions and the outcomes of the calls of requests in flight together.
TaskQuestions == {Some(Joke), Some(FindX)}

TaskCompletionOutcomes == {RoutineCompletion, CompletionRaises(Down)}

TaskSearchOutcomes == {Responds(200, <<>>, TopResult(Some(Passage))),
                       Responds(200, <<>>, TopResult(None))}

\* interact as a plain def, which FastAPI runs in a thread pool: a handler
\* starts whether or not another one is running.
loop_free_always(running) == TRUE

\* interact is a coroutine (async def, line 153) and its question branch has no
\* await: the event loop runs the handler of one request from its start to its
\* return, and starts another only when it runs none.
loop_free(running) == running = 0

\* The owners of the turns after request id changed the log from length n to
\* length n2.
owned(id, n, n2) == owner \o [i \in 1..(n2 - n) |-> id]

\* A question request is received on connection t and its handler is
\* scheduled on the event loop.
Accept(t, q) ==
    /\ tasks[t].pc \in {"idle", "done"}
    /\ loop.accepted < MaxAccepted
    /\ loop' = [loop EXCEPT !.accepted = @ + 1]
    /\ tasks' = [tasks EXCEPT ![t] = [pc |-> "received", id |-> loop.accepted + 1,
                                      question |-> q, response |-> NoResponse]]
    /\ UNCHANGED << conversation_history, evicted, owner >>
    /\ UNCHANGED single

\* The event loop starts the handler of t's request, which runs up to its call
\* of the outside world: interact picks the branch, and optimize_with_gpt
\* stores the question and builds its messages (lines 205-208, 214, 227-236).
Run(t) ==
    /\ tasks[t].pc = "received"
    /\ loop_free(loop.running)
    /\ loop' = [loop EXCEPT !.running = t]
    /\ LET branch == interact_branch(NoFile, tasks[t].question)
       IN  IF branch = "optimize_with_gpt"
           THEN LET sent == optimize_with_gpt_messages(conversation_history,
                                                       tasks[t].question.value)
                IN  /\ conversation_history' = sent.history
                    /\ evicted' = evicted \o sent.removed
                    /\ owner' = owned(tasks[t].id, Len(log),
                                      Len(evicted) + Len(sent.removed) + Len(sent.history))
                    /\ tasks' = [tasks EXCEPT ![t].pc = branch]
           ELSE /\ tasks' = [tasks EXCEPT ![t].pc = branch]
                /\ UNCHANGED << conversation_history, evicted, owner >>
    /\ UNCHANGED single

\* The completion call of t's request is over: optimize_with_gpt handles its
\* outcome and interact returns the answer (lines 238-254, 215).
Completed(t, c) ==
    /\ tasks[t].pc = "optimize_with_gpt"
    /\ loop' = [loop EXCEPT !.running = 0]
    /\ LET r == optimize_with_gpt_result(conversation_history, c)
       IN  /\ conversation_history' = r.history
           /\ evicted' = evicted \o r.removed
           /\ owner' = owned(tasks[t].id, Len(log),
                             Len(evicted) + Len(r.removed) + Len(r.history))
           /\ tasks' = [tasks EXCEPT ![t].pc = "done",
                                     ![t].response = Answer(Some(r.ret))]
    /\ UNCHANGED single

\* The Vectara query of t's request is over: interact stores and returns its
\* result, or runs off its end (lines 208-211).
Searched(t, b) ==
    /\ tasks[t].pc = "query_vectara"
    /\ loop' = [loop EXCEPT !.running = 0]
    /\ LET r == interact_vectara(conversation_history, query_vectara(b))
       IN  /\ conversation_history' = r.history
           /\ evicted' = evicted \o r.removed
           /\ owner' = owned(tasks[t].id, Len(log),
                             Len(evicted) + Len(r.removed) + Len(r.history))
           /\ tasks' = [tasks EXCEPT ![t].pc = "done", ![t].response = r.response]
    /\ UNCHANGED single

NextTasks ==
    \/ \E t \in Tasks, q \in TaskQuestions : Accept(t, q)
    \/ \E t \in Tasks : Run(t)
    \/ \E t \in Tasks, c \in TaskCompletionOutcomes : Completed(t, c)
    \/ \E t \in Tasks, b \in TaskSearchOutcomes : Searched(t, b)

\* Question requests in flight together in one process.
SpecTasks == Init /\ [][NextTasks]_vars

\* ------------------------------------------------------------------- claims

\* What the request in progress is and what its calls did.
IsQuestion == (~file.present) /\ truthy(question)

\* The Vectara query gave a passage: status 200 and a top result with a text.
SearchGavePassage ==
    /\ search.called
    /\ ~search.raised
    /\ search.status_code = 200
    /\ search.json.has_responseSet
    /\ search.json.responseSet # <<>>
    /\ search.json.responseSet[1].response # <<>>
    /\ truthy(search.json.responseSet[1].response[1].text)

ThePassage == search.json.responseSet[1].response[1].text.value

\* The Vectara query failed: an exception, a status other than 200, or a
\* response without a result set.
SearchFailed ==
    /\ search.called
    /\ \/ search.raised
       \/ search.status_code # 200
       \/ ~(search.json.has_responseSet /\ search.json.responseSet # <<>>)

CompletionSucceeded ==
    completion.called /\ ~completion.raised /\ completion.has_choices
        /\ completion.choices # <<>>

CompletionFailed == completion.called /\ ~CompletionSucceeded

\* C1: the history never holds more than MAX_MESSAGES turns, whatever the
\* requests and the direct appends were.
HistoryBounded == Len(conversation_history) <= MAX_MESSAGES

\* C1 witness: the history is at the bound again after an eviction.
HistoryFullAfterEviction ==
    Len(conversation_history) = MAX_MESSAGES /\ evicted # <<>>

\* C2: every eviction removes a user turn followed by an assistant turn, so
\* the removed entries read user, assistant, user, assistant, ...
EvictionRemovesPairs ==
    \A i \in 1..Len(evicted) :
        evicted[i].role = (IF i % 2 = 1 THEN "user" ELSE "assistant")

\* The answer a lookup of question q in history h finds: the content of the
\* assistant turn right after the first user turn that equals q, case and
\* surrounding whitespace ignored.
prior_answer(h, q) ==
    LET hits == {i \in 1..(Len(h) - 1) :
                    /\ h[i].role = "user"
                    /\ lower(strip(h[i].content)) = lower(strip(q))
                    /\ h[i + 1].role = "assistant"}
    IN  IF hits = {}
        THEN None
        ELSE Some(h[(CHOOSE i \in hits : \A j \in hits : i <= j) + 1].content)

\* C3: a question already answered in the history is answered from the
\* history: the stored answer is returned, no search and no completion call
\* is made and the history is left alone.
RepeatedQuestionAnsweredFromHistory ==
    (pc = "done" /\ IsQuestion /\ prior_answer(history0, question.value) # None)
        => /\ response = Answer(prior_answer(history0, question.value))
           /\ calls = NoCalls
           /\ conversation_history = history0

\* C4: a failed completion call leaves the history as long as it was when the
\* request arrived.
FailedCompletionKeepsLength ==
    (pc = "done" /\ IsQuestion /\ CompletionFailed)
        => Len(conversation_history) = len0

\* C5: a keyword question for which Vectara gives a passage is answered by
\* exactly the passage, without a completion call.
PassageIsTheAnswer ==
    (pc = "done" /\ IsQuestion /\ is_vectara_question(question.value) /\ SearchGavePassage)
        => /\ calls.openai = 0
           /\ response = Answer(Some(ThePassage))

\* C5 witness: a request answered by the passage.
PassageAnswered ==
    /\ pc = "done"
    /\ question = Some(FindX)
    /\ SearchGavePassage
    /\ response = Answer(Some(Passage))

\* C6: a keyword question for which the search returns None goes on to the
\* completion: the question is stored and the completion call made.
NoPassageGoesToCompletion ==
    (pc = "done" /\ IsQuestion /\ search.called /\ vectara_response = None)
        => /\ calls.openai = 1
           /\ stored # <<>>
           /\ stored[1] = Turn("user", question.value)

\* C7: a failed search returns None: its failure is neither the answer nor a
\* stored turn.
FailedSearchReturnsNone ==
    (pc = "done" /\ SearchFailed)
        => /\ vectara_response = None
           /\ response # Answer(vectara_response)
           /\ \A i \in 1..Len(stored) : Some(stored[i].content) # vectara_response

\* C8 as stated: after MAX_MESSAGES + 1 appends the history holds
\* MAX_MESSAGES turns, the oldest two gone.
SixtyOneAppendsLeaveSixty ==
    Len(log) = MAX_MESSAGES + 1
        => /\ Len(conversation_history) = MAX_MESSAGES
           /\ Len(evicted) = 2

\* C8 amended: after MAX_MESSAGES + 1 appends the history holds
\* MAX_MESSAGES - 1 turns: the last append removed the two oldest.
SixtyOneAppendsLeaveFiftyNine ==
    Len(log) = MAX_MESSAGES + 1
        => /\ Len(conversation_history) = MAX_MESSAGES - 1
           /\ conversation_history = SubSeq(log, 3, Len(log))
           /\ evicted = SubSeq(log, 1, 2)

\* C8 witness: MAX_MESSAGES + 1 turns have been stored.
SixtyOneAppended ==
    Len(log) = MAX_MESSAGES + 1 /\ Len(conversation_history) = MAX_MESSAGES - 1

\* C9 as stated: a request answered by a passage changes the history by the
\* append of the assistant turn with the passage and by nothing else.
PassageOnlyAppended ==
    (pc = "done" /\ IsQuestion /\ SearchGavePassage)
        => conversation_history = Append(history0, Turn("assistant", ThePassage))

\* C9 amended: a request answered by a passage appends the assistant turn with
\* the passage and no user turn; when the history was full, the two oldest
\* turns are removed as well.
PassageAppendedOldestEvicted ==
    (pc = "done" /\ IsQuestion /\ SearchGavePassage)
        => /\ stored = << Turn("assistant", ThePassage) >>
           /\ conversation_history =
                 IF len0 < MAX_MESSAGES
                 THEN Append(history0, Turn("assistant", ThePassage))
                 ELSE Tail(Tail(Append(history0, Turn("assistant", ThePassage))))

\* C9 witness: a passage answered a request that arrived at a full history.
PassageAnsweredAtFullHistory ==
    /\ pc = "done"
    /\ IsQuestion
    /\ SearchGavePassage
    /\ len0 = MAX_MESSAGES
    /\ Len(conversation_history) = MAX_MESSAGES - 1

\* C10: a question without keyword whose completion succeeds makes no search;
\* the question and then the answer are stored and are the last two turns of
\* the history, which is two turns longer when nothing was evicted.
ExchangeStoredInOrder ==
    (pc = "done" /\ IsQuestion /\ ~is_vectara_question(question.value) /\ CompletionSucceeded)
        => /\ calls.query_vectara = 0
           /\ response.key = "answer"
           /\ ~response.value.is_none
           /\ stored = << Turn("user", question.value),
                          Turn("assistant", response.value.value) >>
           /\ Len(conversation_history) >= 2
           /\ SubSeq(conversation_history, Len(conversation_history) - 1,
                     Len(conversation_history)) = stored
           /\ (Len(evicted) = n0 - len0 => Len(conversation_history) = len0 + 2)

\* C10 witness: the exchange of a varied question, stored at an empty history.
ExchangeStored ==
    /\ pc = "done"
    /\ question = Some(JokeShouted)
    /\ CompletionSucceeded
    /\ conversation_history = << Turn("user", JokeShouted), Turn("assistant", <<"h","a">>) >>

\* C11: a question that is empty or only whitespace, sent without a file, is
\* rejected with a client error: no search and no completion call is made for
\* it and the history stays as it was.
BlankQuestionRejected ==
    (/\ pc = "done"
     /\ ~file.present
     /\ ~question.is_none
     /\ strip(question.value) = <<>>)
        => /\ response.status_code = 400
           /\ calls = NoCalls
           /\ conversation_history = history0

\* C13: whenever the completion call fails, by an exception or by a response
\* without a choice, the answer is the one apology.
FailedCompletionAnswersApology ==
    (pc = "done" /\ IsQuestion /\ CompletionFailed)
        => response = Answer(Some(Apology))

\* C15: a question request ends with a response whose answer is a text, never
\* absent, whatever the search and the completion did.
QuestionAnsweredWithText ==
    (pc = "done" /\ IsQuestion)
        => /\ response.key = "answer"
           /\ ~response.value.is_none

\* The turns of h read user, assistant, user, assistant, ... and end with an
\* assistant turn.
alternates(h) ==
    /\ Len(h) % 2 = 0
    /\ \A i \in 1..Len(h) :
          h[i].role = (IF i % 2 = 1 THEN "user" ELSE "assistant")

\* C16: after a completed request the history has even length and alternates
\* user, assistant from a user turn on.
HistoryAlternates ==
    pc = "done" => alternates(conversation_history)

\* The upload f fails a check of interact: its name does not end in .pdf, its
\* MIME type is not application/pdf, or it is larger than MAX_FILE_SIZE.
fails_validation(f) ==
    /\ f.present
    /\ \/ ~endswith(f.filename, DotPdf)
       \/ f.content_type # ApplicationPdf
       \/ f.size > MAX_FILE_SIZE

\* C12: an upload that fails validation is never written to the upload
\* directory, extracted or ingested, and its request ends with a client error.
InvalidUploadRejectedUntouched ==
    fails_validation(file)
        => /\ pc \in {"upload", "done"}
           /\ calls.write = 0
           /\ calls.extract = 0
           /\ calls.ingest = 0
           /\ (pc = "done" => response.status_code = 400 /\ response.key = "detail")

\* C12 witness: an upload of one byte more than MAX_FILE_SIZE was rejected.
OversizeUploadRejected ==
    /\ pc = "done"
    /\ file = Upload(APdf, ApplicationPdf, MAX_FILE_SIZE + 1)
    /\ response = HTTPException(400, FileTooLarge)

\* C14: a request with a file, with or without a question, is handled as an
\* upload alone: the question is not classified, no search and no completion
\* call is made, and the history stays as it was.
UploadLeavesHistoryAlone ==
    file.present
        => /\ pc \notin {"query_vectara", "optimize_with_gpt"}
           /\ calls.query_vectara = 0
           /\ calls.openai = 0
           /\ search = NoPost
           /\ completion = NoCompletion
           /\ conversation_history = history0
           /\ stored = <<>>

\* C14 witness: a request with a file and a question ended as an upload.
UploadWithQuestionIngested ==
    /\ pc = "done"
    /\ file.present
    /\ truthy(question)
    /\ calls.ingest = 1
    /\ response.key = "message"

\* C18: after a failed completion call the request has stored its question and
\* nothing else: no assistant turn, and the text it returns is no turn of the
\* history.
FailureTextNotStored ==
    (pc = "done" /\ IsQuestion /\ CompletionFailed)
        => /\ stored = << Turn("user", question.value) >>
           /\ \A i \in 1..Len(log) : Some(log[i].content) # response.value

\* C18 witness: a request whose completion call raised got the error text.
FailedExchangeAnswered ==
    /\ pc = "done"
    /\ completion = CompletionRaises(Down)
    /\ response = Answer(Some(ErrorDuringOpenAI \o Down))

\* C17: every turn of the history, and every turn removed from it, has the
\* role user or assistant, so the system message sent with a completion call
\* is no turn of it; and a call of update_conversation_history with another
\* role leaves the history as it was.
OnlyUserAndAssistantStored ==
    /\ \A i \in 1..Len(conversation_history) :
          conversation_history[i].role \in {"user", "assistant"}
    /\ \A i \in 1..Len(evicted) : evicted[i].role \in {"user", "assistant"}
    /\ (appended.called /\ appended.role \notin {"user", "assistant"})
          => (conversation_history = history0 /\ stored = <<>>)

\* C17 witness: update_conversation_history was called with the role system
\* at a history that held turns.
SystemAppendIgnored ==
    /\ appended = Appended("system", Joke)
    /\ conversation_history # <<>>

\* C20: a step changes the history only at its two ends.  What was ever
\* stored stays as it was and in its order, the new turns come after it, one
\* for each call of update_conversation_history the step makes (two in the
\* step of optimize_with_gpt, at most one in every other), and the turns
\* removed are taken from the front.
HistoryChangesAtItsEndsOnly ==
    [][/\ Len(log') - Len(log) \in 0..(IF pc = "optimize_with_gpt" THEN 2 ELSE 1)
       /\ SubSeq(log', 1, Len(log)) = log
       /\ Len(evicted') >= Len(evicted)
       /\ SubSeq(evicted', 1, Len(evicted)) = evicted]_vars

\* C20 witness: one request has stored two turns and the two oldest turns were
\* removed from the front meanwhile.
StoredAndEvictedByOneRequest ==
    /\ pc = "done"
    /\ Len(stored) = 2
    /\ n0 = len0
    /\ Len(evicted) = 2

\* C19 as stated: the operations of two requests in flight can interleave.
\* While one request has stored its question and its completion call is not
\* over, the handler of another received request can start, and its turn gets
\* between the question and the answer of the first.
HandlersCanInterleave ==
    \A t \in Tasks, u \in Tasks :
        (tasks[t].pc = "optimize_with_gpt" /\ tasks[u].pc = "received")
            => ENABLED Run(u)

\* C19 amended: the turns of one request are never separated by a turn of
\* another request: in the log the question a request stored is followed at
\* once by the answer it stored.
TurnsOfARequestAdjacent ==
    /\ Len(owner) = Len(log)
    /\ \A i \in 1..Len(owner), k \in 1..Len(owner) :
          (i < k /\ owner[i] = owner[k]) => k = i + 1

\* C19 witness: two requests were in flight together and both have stored an
\* exchange: the second one accepted was handled while the first waited for
\* the event loop.
TwoExchangesOfRequestsInFlightTogether ==
    /\ \A t \in Tasks : tasks[t].pc = "done" /\ tasks[t].id \in {1, 2}
    /\ owner = <<2, 2, 1, 1>>

====
